---- MODULE Spec2Model ----
(***************************************************************************)
(* A model of the Becs entity-component store (src/src/lib.rs): the World  *)
(* with its entity counter and its type-erased component columns, each a   *)
(* RefCell<Vec<Option<T>>> with a runtime borrow flag, the four data       *)
(* operations, and the update loop that runs a list of systems in order.   *)
(*                                                                         *)
(* A caller is either the code that owns the World (mode "idle") or the    *)
(* system that update is running (mode "running").  A panic freezes the    *)
(* model in the state in which it was raised (mode "panicked").            *)
(***************************************************************************)
EXTENDS Integers, Sequences, FiniteSets, TLC

\* Bounds of the model.
MaxEntities == 2
MaxViews == 2
MaxSystems == 2

\* The component types of the tests (lib.rs 130-131, 153-154) and their values.
ComponentTypes == {"Health", "Name"}

ValuesOf(t) == IF t = "Health" THEN {10, 100} ELSE {"Somebody", "New name"}

\* heal_system and rename_system are the closures of tests::update; a
\* client_system is any other closure: it may make any call a caller can make.
SystemKinds == {"heal_system", "rename_system", "client_system"}

\* Option<T>
None == <<>>

Some(v) == <<v>>

is_some(o) == Len(o) = 1

VARIABLES
    entities_count,   \* World.entities_count
    component_vecs,   \* World.component_vecs: [ty, vec, borrow] per column
    views,            \* the Ref / RefMut values alive in the caller's scope,
                      \* counted per column type: [shared, excl]
    mode,             \* "idle" | "running" | "panicked"
    fault,            \* the panic raised, if any: [msg, op, ty, ent]
    systems,          \* the list given to the update call in progress / last returned
    cur,              \* index of the system update is running, 0 when idle
    spc,              \* position inside heal_system / rename_system
    started,          \* indices of the systems update has invoked, in order
    seen,             \* what the systems printed (the names they read)
    issued,           \* the ids new_entity has returned, in order
    attached          \* the <<type, entity>> pairs add_component_to_entity has set

vars == <<entities_count, component_vecs, views, mode, fault, systems, cur,
          spc, started, seen, issued, attached>>

----------------------------------------------------------------------------
\* Pure parts of the World's methods.

\* Mutant: the scan gives up at the first column that is of another type.
position_first(cvs, t) ==
    IF cvs # <<>> /\ cvs[1].ty = t THEN 1 ELSE 0

\* The linear scan with downcast: index of the first column of type t, or 0.
position(cvs, t) ==
    IF \E i \in DOMAIN cvs : cvs[i].ty = t
    THEN CHOOSE i \in DOMAIN cvs :
            cvs[i].ty = t /\ \A j \in 1..(i - 1) : cvs[j].ty # t
    ELSE 0

\* Mutant: the absent slot is put in front of the column.
push_none_front(col) == [col EXCEPT !.vec = <<None>> \o @]

\* ComponentVec::push_none on one column.
push_none(col) == [col EXCEPT !.vec = Append(@, None)]

\* Mutant: new_entity forgets the last registered column.
new_entity_vecs_short(cvs) ==
    [i \in DOMAIN cvs |-> IF i = Len(cvs) THEN cvs[i] ELSE push_none(cvs[i])]

\* new_entity's loop over every column.
new_entity_vecs(cvs) == [i \in DOMAIN cvs |-> push_none(cvs[i])]

\* Mutant: the id is read after the increment.
entity_id_after(n) == n + 1

\* new_entity's return value.
entity_id(n) == n

\* Mutant: the fresh column gets one slot too many.
new_component_vec_extra(n) == [k \in 1..(n + 1) |-> None]

\* The fresh column of add_component_to_entity: entities_count absent slots.
new_component_vec(n) == [k \in 1..n |-> None]

\* Mutant: a component that is already present is kept.
add_component_keep(cvs, n, e, t, v) ==
    LET i == position(cvs, t) IN
    IF i # 0
    THEN IF e >= Len(cvs[i].vec)
         THEN [panic |-> TRUE, vecs |-> cvs]
         ELSE [panic |-> FALSE,
               vecs |-> IF is_some(cvs[i].vec[e + 1]) THEN cvs
                        ELSE [cvs EXCEPT ![i].vec[e + 1] = Some(v)]]
    ELSE LET nv == new_component_vec(n) IN
         IF e >= Len(nv)
         THEN [panic |-> TRUE, vecs |-> cvs]
         ELSE [panic |-> FALSE,
               vecs |-> Append(cvs, [ty |-> t,
                                     vec |-> [nv EXCEPT ![e + 1] = Some(v)],
                                     borrow |-> 0])]

\* Mutant: the fresh column holds the component for every entity.
add_component_fill(cvs, n, e, t, v) ==
    LET i == position(cvs, t) IN
    IF i # 0
    THEN IF e >= Len(cvs[i].vec)
         THEN [panic |-> TRUE, vecs |-> cvs]
         ELSE [panic |-> FALSE, vecs |-> [cvs EXCEPT ![i].vec[e + 1] = Some(v)]]
    ELSE LET nv == new_component_vec(n) IN
         IF e >= Len(nv)
         THEN [panic |-> TRUE, vecs |-> cvs]
         ELSE [panic |-> FALSE,
               vecs |-> Append(cvs, [ty |-> t,
                                     vec |-> [k \in DOMAIN nv |-> Some(v)],
                                     borrow |-> 0])]

\* Mutant: the fresh column is left without the component.
add_component_noset(cvs, n, e, t, v) ==
    LET i == position(cvs, t) IN
    IF i # 0
    THEN IF e >= Len(cvs[i].vec)
         THEN [panic |-> TRUE, vecs |-> cvs]
         ELSE [panic |-> FALSE, vecs |-> [cvs EXCEPT ![i].vec[e + 1] = Some(v)]]
    ELSE LET nv == new_component_vec(n) IN
         IF e >= Len(nv)
         THEN [panic |-> TRUE, vecs |-> cvs]
         ELSE [panic |-> FALSE,
               vecs |-> Append(cvs, [ty |-> t, vec |-> nv, borrow |-> 0])]

\* Mutant: the fresh column is registered before its slot is indexed.
add_component_push_first(cvs, n, e, t, v) ==
    LET i == position(cvs, t) IN
    IF i # 0
    THEN IF e >= Len(cvs[i].vec)
         THEN [panic |-> TRUE, vecs |-> cvs]
         ELSE [panic |-> FALSE, vecs |-> [cvs EXCEPT ![i].vec[e + 1] = Some(v)]]
    ELSE LET nv == new_component_vec(n) IN
         IF e >= Len(nv)
         THEN [panic |-> TRUE,
               vecs |-> Append(cvs, [ty |-> t, vec |-> nv, borrow |-> 0])]
         ELSE [panic |-> FALSE,
               vecs |-> Append(cvs, [ty |-> t,
                                     vec |-> [nv EXCEPT ![e + 1] = Some(v)],
                                     borrow |-> 0])]

\* Mutant: the fresh column is registered in front of the others.
add_component_front(cvs, n, e, t, v) ==
    LET i == position(cvs, t) IN
    IF i # 0
    THEN IF e >= Len(cvs[i].vec)
         THEN [panic |-> TRUE, vecs |-> cvs]
         ELSE [panic |-> FALSE, vecs |-> [cvs EXCEPT ![i].vec[e + 1] = Some(v)]]
    ELSE LET nv == new_component_vec(n) IN
         IF e >= Len(nv)
         THEN [panic |-> TRUE, vecs |-> cvs]
         ELSE [panic |-> FALSE,
               vecs |-> <<[ty |-> t,
                           vec |-> [nv EXCEPT ![e + 1] = Some(v)],
                           borrow |-> 0]>> \o cvs]

\* add_component_to_entity: [panic, vecs], the columns as the call leaves them.
\* Indexing a Vec past its length panics, before the slot is assigned and
\* before a fresh column is pushed.
add_component(cvs, n, e, t, v) ==
    LET i == position(cvs, t) IN
    IF i # 0
    THEN IF e >= Len(cvs[i].vec)
         THEN [panic |-> TRUE, vecs |-> cvs]
         ELSE [panic |-> FALSE, vecs |-> [cvs EXCEPT ![i].vec[e + 1] = Some(v)]]
    ELSE LET nv == new_component_vec(n) IN
         IF e >= Len(nv)
         THEN [panic |-> TRUE, vecs |-> cvs]
         ELSE [panic |-> FALSE,
               vecs |-> Append(cvs, [ty |-> t,
                                     vec |-> [nv EXCEPT ![e + 1] = Some(v)],
                                     borrow |-> 0])]

\* Mutant: shared access is always granted.
can_borrow_always(flag) == TRUE

\* RefCell::borrow on a flag: shared access is refused while a writer holds it.
can_borrow(flag) == flag >= 0

\* Mutant: exclusive access is refused only while a writer holds the cell.
can_borrow_mut_readers(flag) == flag >= 0

\* RefCell::borrow_mut on a flag: exclusive access needs an unused cell.
can_borrow_mut(flag) == flag = 0

\* borrow_component_vec: "none" | "panic" | "some".
borrow_outcome(cvs, t) ==
    LET i == position(cvs, t) IN
    IF i = 0 THEN "none"
    ELSE IF can_borrow(cvs[i].borrow) THEN "some" ELSE "panic"

\* borrow_component_vec_mut: "none" | "panic" | "some".
borrow_mut_outcome(cvs, t) ==
    LET i == position(cvs, t) IN
    IF i = 0 THEN "none"
    ELSE IF can_borrow_mut(cvs[i].borrow) THEN "some" ELSE "panic"

\* The columns after a Ref of t's column is handed out.
acquire_shared(cvs, t) == [cvs EXCEPT ![position(cvs, t)].borrow = @ + 1]

\* Mutant: an exclusive view marks every column of the World as written.
acquire_excl_all(cvs, t) == [i \in DOMAIN cvs |-> [cvs[i] EXCEPT !.borrow = @ - 1]]

\* Mutant: the exclusive view is handed out without marking the column.
acquire_excl_untracked(cvs, t) == cvs

\* The columns after a RefMut of t's column is handed out.
acquire_excl(cvs, t) == [cvs EXCEPT ![position(cvs, t)].borrow = @ - 1]

\* Mutant: dropping a RefMut counts the flag like dropping a Ref.
release_as_shared(cvs, t, kind) ==
    [cvs EXCEPT ![position(cvs, t)].borrow = @ - 1]

\* Dropping a view of t's column gives its access back to the column's flag.
release(cvs, t, kind) ==
    [cvs EXCEPT ![position(cvs, t)].borrow =
                    IF kind = "shared" THEN @ - 1 ELSE @ + 1]

\* Mutant: the views of a returning system are leaked, not dropped.
drop_all_leak(cvs, vs) == cvs

\* The end of a scope drops every view declared in it.
drop_all(cvs, vs) ==
    [i \in DOMAIN cvs |->
        [cvs[i] EXCEPT !.borrow = @ - vs[cvs[i].ty].shared + vs[cvs[i].ty].excl]]

\* No view alive.
NoViews == [t \in ComponentTypes |-> [shared |-> 0, excl |-> 0]]

\* How many views are alive.
RECURSIVE Total(_, _)
Total(vs, ts) ==
    IF ts = {} THEN 0
    ELSE LET t == CHOOSE x \in ts : TRUE
         IN vs[t].shared + vs[t].excl + Total(vs, ts \ {t})

ViewCount(vs) == Total(vs, ComponentTypes)

\* Mutant: update's loop steps over every other system.
next_system_skip(i) == i + 2

\* The system update invokes after system i.
next_system(i) == i + 1

Min(a, b) == IF a < b THEN a ELSE b

\* The column of type t (callers only use it where it exists).
column(cvs, t) == cvs[position(cvs, t)].vec

\* zip(healths, names) filtered to the entities that have both: their slots.
matched(cvs) ==
    LET hs == column(cvs, "Health")
        ns == column(cvs, "Name")
        n  == Min(Len(hs), Len(ns))
    IN SelectSeq([k \in 1..n |-> k], LAMBDA k : is_some(hs[k]) /\ is_some(ns[k]))

\* Mutant: the loop rebuilds the column from the matched pairs alone.
heal_loop_clear(cvs) ==
    LET i == position(cvs, "Health")
        m == matched(cvs)
    IN [cvs EXCEPT ![i].vec =
            [k \in DOMAIN @ |-> IF \E j \in DOMAIN m : m[j] = k
                                THEN Some(100) ELSE None]]

\* heal_system's loop: health.0 = 100 for every matched pair.
heal_loop(cvs) ==
    LET i == position(cvs, "Health")
        m == matched(cvs)
    IN [cvs EXCEPT ![i].vec =
            [k \in DOMAIN @ |-> IF \E j \in DOMAIN m : m[j] = k
                                THEN Some(100) ELSE @[k]]]

\* heal_system's println!: the name of every healed entity.
heal_prints(cvs, s) ==
    LET m == matched(cvs) IN
    [j \in DOMAIN m |->
        [sys |-> s, ent |-> m[j] - 1, val |-> column(cvs, "Name")[m[j]][1]]]

\* The slots of the present names.
named(cvs) ==
    LET ns == column(cvs, "Name") IN
    SelectSeq([k \in 1..Len(ns) |-> k], LAMBDA k : is_some(ns[k]))

\* Mutant: rename_system renames the first entity only.
rename_loop_first(cvs) ==
    LET i == position(cvs, "Name") IN
    [cvs EXCEPT ![i].vec =
        [k \in DOMAIN @ |-> IF is_some(@[k]) /\ k = 1 THEN Some("New name") ELSE @[k]]]

\* rename_system's loop: name.0 = "New name" for every present name.
rename_loop(cvs) ==
    LET i == position(cvs, "Name") IN
    [cvs EXCEPT ![i].vec =
        [k \in DOMAIN @ |-> IF is_some(@[k]) THEN Some("New name") ELSE @[k]]]

\* rename_system's println!: tmp, the name read before it is overwritten.
rename_prints(cvs, s) ==
    LET m == named(cvs) IN
    [j \in DOMAIN m |->
        [sys |-> s, ent |-> m[j] - 1, val |-> column(cvs, "Name")[m[j]][1]]]

----------------------------------------------------------------------------
\* No panic has been raised.
NoFault == [msg |-> "", op |-> "", ty |-> "", ent |-> -1]

\* The state after World::new().
Init ==
    /\ entities_count = 0
    /\ component_vecs = <<>>
    /\ views = NoViews
    /\ mode = "idle"
    /\ fault = NoFault
    /\ systems = <<>>
    /\ cur = 0
    /\ spc = 0
    /\ started = <<>>
    /\ seen = <<>>
    /\ issued = <<>>
    /\ attached = {}

\* Who may call the World: its owner, or the client system that is running.
CallerActive ==
    \/ mode = "idle"
    \/ mode = "running" /\ systems[cur] = "client_system"

\* The record of the last update call is kept until the owner's next call.
CallFrame ==
    /\ systems' = IF mode = "idle" THEN <<>> ELSE systems
    /\ started' = IF mode = "idle" THEN <<>> ELSE started
    /\ seen' = IF mode = "idle" THEN <<>> ELSE seen
    /\ UNCHANGED <<cur, spc>>

\* Mutant: the failure is recorded and the caller goes on.
PanicReturns(msg, op, t, e) ==
    /\ mode' = mode
    /\ fault' = [msg |-> msg, op |-> op, ty |-> t, ent |-> e]

\* A panic raised by the call op(t, e): the call does not return, and the
\* state stays as it was when the panic was raised.
Panic(msg, op, t, e) ==
    /\ mode' = "panicked"
    /\ fault' = [msg |-> msg, op |-> op, ty |-> t, ent |-> e]

\* World::new_entity(&mut self): no view can be alive across the call.
NewEntity ==
    /\ CallerActive
    /\ views = NoViews
    /\ entities_count < MaxEntities
    /\ component_vecs' = new_entity_vecs(component_vecs)
    /\ entities_count' = entities_count + 1
    /\ issued' = Append(issued, entity_id(entities_count))
    /\ CallFrame
    /\ UNCHANGED <<views, mode, fault, attached>>

\* World::add_component_to_entity(&mut self, entity, component).
AddComponentToEntity(e, t, v) ==
    /\ CallerActive
    /\ views = NoViews
    /\ LET r == add_component(component_vecs, entities_count, e, t, v) IN
       /\ component_vecs' = r.vecs
       /\ IF r.panic
          THEN /\ Panic("index out of bounds", "add_component_to_entity", t, e)
               /\ UNCHANGED attached
          ELSE /\ attached' = attached \cup {<<t, e>>}
               /\ UNCHANGED <<mode, fault>>
    /\ CallFrame
    /\ UNCHANGED <<entities_count, views, issued>>

\* World::borrow_component_vec::<t>(&self).
BorrowComponentVec(t) ==
    /\ CallerActive
    /\ LET r == borrow_outcome(component_vecs, t) IN
       /\ r = "some" => ViewCount(views) < MaxViews
       /\ CASE r = "none" -> UNCHANGED <<component_vecs, views, mode, fault>>
            [] r = "panic" -> /\ Panic("already mutably borrowed",
                                       "borrow_component_vec", t, -1)
                              /\ UNCHANGED <<component_vecs, views>>
            [] r = "some" -> /\ component_vecs' = acquire_shared(component_vecs, t)
                             /\ views' = [views EXCEPT ![t].shared = @ + 1]
                             /\ UNCHANGED <<mode, fault>>
    /\ CallFrame
    /\ UNCHANGED <<entities_count, issued, attached>>

\* World::borrow_component_vec_mut::<t>(&self).
BorrowComponentVecMut(t) ==
    /\ CallerActive
    /\ LET r == borrow_mut_outcome(component_vecs, t) IN
       /\ r = "some" => ViewCount(views) < MaxViews
       /\ CASE r = "none" -> UNCHANGED <<component_vecs, views, mode, fault>>
            [] r = "panic" -> /\ Panic("already borrowed",
                                       "borrow_component_vec_mut", t, -1)
                              /\ UNCHANGED <<component_vecs, views>>
            [] r = "some" -> /\ component_vecs' = acquire_excl(component_vecs, t)
                             /\ views' = [views EXCEPT ![t].excl = @ + 1]
                             /\ UNCHANGED <<mode, fault>>
    /\ CallFrame
    /\ UNCHANGED <<entities_count, issued, attached>>

\* A view goes out of scope (or is dropped) in the caller.
DropView(t, kind) ==
    /\ CallerActive
    /\ views[t][kind] > 0
    /\ component_vecs' = release(component_vecs, t, kind)
    /\ views' = [views EXCEPT ![t][kind] = @ - 1]
    /\ CallFrame
    /\ UNCHANGED <<entities_count, mode, fault, issued, attached>>

\* The caller assigns through a RefMut to the field of a present component,
\* as the tests do (health.0 = 100, name.0 = "New name").
ViewWrite(e, t, v) ==
    /\ CallerActive
    /\ views[t].excl > 0
    /\ LET i == position(component_vecs, t) IN
       /\ e < Len(component_vecs[i].vec)
       /\ is_some(component_vecs[i].vec[e + 1])
       /\ component_vecs' = [component_vecs EXCEPT ![i].vec[e + 1] = Some(v)]
    /\ CallFrame
    /\ UNCHANGED <<entities_count, views, mode, fault, issued, attached>>

\* World::update(&mut self, systems): the call, up to the first system's entry.
Update(ss) ==
    /\ mode = "idle"
    /\ views = NoViews
    /\ systems' = ss
    /\ seen' = <<>>
    /\ spc' = 0
    /\ IF ss = <<>>
       THEN /\ started' = <<>>
            /\ UNCHANGED <<mode, cur>>
       ELSE /\ mode' = "running"
            /\ cur' = 1
            /\ started' = <<1>>
    /\ UNCHANGED <<entities_count, component_vecs, views, fault, issued, attached>>

\* A statement `let x = world.borrow_component_vec_mut::<t>().unwrap();` of a
\* test system.
UnwrapBorrowMut(t) ==
    LET r == borrow_mut_outcome(component_vecs, t) IN
    /\ CASE r = "none" -> /\ Panic("unwrap on None", "unwrap", t, -1)
                          /\ UNCHANGED <<component_vecs, views, spc>>
         [] r = "panic" -> /\ Panic("already borrowed",
                                    "borrow_component_vec_mut", t, -1)
                           /\ UNCHANGED <<component_vecs, views, spc>>
         [] r = "some" -> /\ component_vecs' = acquire_excl(component_vecs, t)
                          /\ views' = [views EXCEPT ![t].excl = @ + 1]
                          /\ spc' = spc + 1
                          /\ UNCHANGED <<mode, fault>>

\* tests::update heal_system, one statement at a time.
HealSystem ==
    /\ mode = "running"
    /\ systems[cur] = "heal_system"
    /\ spc < 3
    /\ CASE spc = 0 -> UnwrapBorrowMut("Health") /\ UNCHANGED seen
         [] spc = 1 -> UnwrapBorrowMut("Name") /\ UNCHANGED seen
         [] spc = 2 -> /\ component_vecs' = heal_loop(component_vecs)
                       /\ seen' = seen \o heal_prints(component_vecs, cur)
                       /\ spc' = 3
                       /\ UNCHANGED <<views, mode, fault>>
    /\ UNCHANGED <<entities_count, systems, cur, started, issued, attached>>

\* tests::update rename_system, one statement at a time.
RenameSystem ==
    /\ mode = "running"
    /\ systems[cur] = "rename_system"
    /\ spc < 2
    /\ CASE spc = 0 -> UnwrapBorrowMut("Name") /\ UNCHANGED seen
         [] spc = 1 -> /\ component_vecs' = rename_loop(component_vecs)
                       /\ seen' = seen \o rename_prints(component_vecs, cur)
                       /\ spc' = 2
                       /\ UNCHANGED <<views, mode, fault>>
    /\ UNCHANGED <<entities_count, systems, cur, started, issued, attached>>

\* Whether the running system has reached the end of its body.
AtEnd ==
    CASE systems[cur] = "heal_system" -> spc = 3
      [] systems[cur] = "rename_system" -> spc = 2
      [] OTHER -> TRUE

\* The running system returns: its views are dropped, and update's loop either
\* invokes the next system or returns.
SystemReturn ==
    /\ mode = "running"
    /\ AtEnd
    /\ component_vecs' = drop_all(component_vecs, views)
    /\ views' = NoViews
    /\ spc' = 0
    /\ IF next_system(cur) <= Len(systems)
       THEN /\ cur' = next_system(cur)
            /\ started' = Append(started, next_system(cur))
            /\ UNCHANGED mode
       ELSE /\ cur' = 0
            /\ mode' = "idle"
            /\ UNCHANGED started
    /\ UNCHANGED <<entities_count, fault, systems, seen, issued, attached>>

\* The lists update is given: up to MaxSystems systems, of which only the first
\* may be a client system (a client system can do to the World all that the
\* owner and the test's systems do).
SystemLists ==
    {ss \in UNION {[1..n -> SystemKinds] : n \in 0..MaxSystems} :
        \A i \in DOMAIN ss : ss[i] = "client_system" => i = 1}

Next ==
    \/ NewEntity
    \/ \E e \in 0..MaxEntities, t \in ComponentTypes :
          \E v \in ValuesOf(t) : AddComponentToEntity(e, t, v)
    \/ \E t \in ComponentTypes : BorrowComponentVec(t)
    \/ \E t \in ComponentTypes : BorrowComponentVecMut(t)
    \/ \E t \in ComponentTypes, kind \in {"shared", "excl"} : DropView(t, kind)
    \/ \E e \in 0..(MaxEntities - 1), t \in ComponentTypes :
          \E v \in ValuesOf(t) : ViewWrite(e, t, v)
    \/ \E ss \in SystemLists : Update(ss)
    \/ HealSystem
    \/ RenameSystem
    \/ SystemReturn

Spec == Init /\ [][Next]_vars

----------------------------------------------------------------------------
\* Vocabulary of the properties.

\* The views outstanding on t's column.
Outstanding(t) == views[t].shared + views[t].excl

\* t's column is registered.
Exists(t) == position(component_vecs, t) # 0

\* No column's borrow flag records an access.
FlagsClear == \A i \in DOMAIN component_vecs : component_vecs[i].borrow = 0

\* The slots of every column, without the borrow flags.
Data(cvs) == [i \in DOMAIN cvs |-> [ty |-> cvs[i].ty, vec |-> cvs[i].vec]]

\* 1, 2, ..., n
UpTo(n) == [k \in 1..n |-> k]

\* The lines system number s printed.
PrintedBy(s) == SelectSeq(seen, LAMBDA r : r.sys = s)

\* An update call over the list ss has returned, and nothing was called since.
Returned(ss) == mode = "idle" /\ systems = ss

----------------------------------------------------------------------------
\* C1: after every call of new_entity and add_component_to_entity, by the
\* owner or by a system during update, every registered column has exactly
\* entities_count slots.
C1_ColumnLengths ==
    \A i \in DOMAIN component_vecs :
        Len(component_vecs[i].vec) = entities_count

\* Two columns and two entities, built while update is running a system.
C1_Witness ==
    /\ mode = "running"
    /\ entities_count = 2
    /\ Len(component_vecs) = 2
    /\ \A i \in DOMAIN component_vecs : Len(component_vecs[i].vec) = 2

\* C2: on every column at most one exclusive view is outstanding, and never
\* together with a shared view of the same column.
C2_ExclusiveAlone ==
    \A t \in ComponentTypes :
        /\ views[t].excl <= 1
        /\ views[t].excl = 1 => views[t].shared = 0

\* An exclusive view of one column is held next to a shared view of another.
C2_Witness ==
    \E t, u \in ComponentTypes :
        t # u /\ views[t].excl = 1 /\ views[u].shared = 1

\* C3: in every state, borrow_component_vec_mut panics on a column of which
\* any view is outstanding, borrow_component_vec panics on a column of which an
\* exclusive view is outstanding, and borrow_component_vec returns a view of a
\* column of which only shared views (any number) are outstanding.
C3_BorrowConflicts ==
    \A t \in ComponentTypes :
        /\ Outstanding(t) > 0
              => borrow_mut_outcome(component_vecs, t) = "panic"
        /\ views[t].excl > 0
              => borrow_outcome(component_vecs, t) = "panic"
        /\ (Exists(t) /\ views[t].excl = 0)
              => borrow_outcome(component_vecs, t) = "some"

\* An exclusive borrow has panicked on a column that two shared views hold.
C3_Witness ==
    /\ mode = "panicked"
    /\ fault.op = "borrow_component_vec_mut"
    /\ views[fault.ty].shared = 2

\* C4: once the views of a column are released (no view of it is outstanding),
\* a shared borrow and an exclusive borrow of that column both succeed.
C4_ReleaseRestores ==
    \A t \in ComponentTypes :
        (Exists(t) /\ Outstanding(t) = 0)
            => /\ borrow_outcome(component_vecs, t) = "some"
               /\ borrow_mut_outcome(component_vecs, t) = "some"

\* rename_system holds its exclusive view of Name, borrowed after heal_system
\* released its own exclusive view of Name.
C4_Witness ==
    /\ mode = "running"
    /\ systems = <<"heal_system", "rename_system">>
    /\ cur = 2
    /\ spc = 1
    /\ views["Name"].excl = 1

\* C5: the ids new_entity has returned are 0, 1, 2, ... in order, one per unit
\* of entities_count; entities_count changes only by a new_entity call, by
\* exactly one, and new_entity never panics.
C5_SequentialIds ==
    [][/\ issued' = [k \in 1..entities_count' |-> k - 1]
       /\ entities_count' # entities_count
            => /\ entities_count' = entities_count + 1
               /\ issued' = Append(issued, entities_count)
       /\ issued' # issued => entities_count' # entities_count
       /\ fault'.op # "new_entity"]_vars

\* The second call has returned 1.
C5_Witness == entities_count = 2 /\ issued = <<0, 1>>

\* C6: update invokes the systems of its list once each, in list order: while
\* system number cur runs, the systems invoked so far are 1..cur, and when
\* update returns they are all of 1..Len(systems).
C6_ListOrder ==
    /\ mode = "running" => cur \in 1..Len(systems) /\ started = UpTo(cur)
    /\ mode = "idle" => cur = 0 /\ started = UpTo(Len(systems))
    /\ (mode = "panicked" /\ cur > 0) => started = UpTo(cur)

\* update has returned from a list of two systems.
C6_Witness == Returned(systems) /\ Len(systems) = 2 /\ started = <<1, 2>>

\* C7: whenever update invokes a system, and when update returns, no view is
\* outstanding and no column's borrow flag records an access.
C7_ReleasedBetweenSystems ==
    [][(\/ mode' = "running" /\ started' # started
        \/ mode = "running" /\ mode' = "idle")
          => views' = NoViews /\ \A i \in DOMAIN component_vecs' :
                                    component_vecs'[i].borrow = 0]_vars

\* rename_system is entered after heal_system, which held two exclusive views.
C7_Witness ==
    /\ mode = "running"
    /\ systems = <<"heal_system", "rename_system">>
    /\ cur = 2
    /\ spc = 0
    /\ views = NoViews
    /\ FlagsClear

\* C8: in one update over two of the test's systems, the second system reads
\* what the first wrote and the first never reads what the second writes:
\* after [rename, heal] or [rename, rename] the second system printed only
\* "New name"; after [heal, rename] heal printed, entity by entity, the names
\* rename found before overwriting them, every entity with both components
\* has Health 100, and every present Name is "New name".
C8_SystemOrderEffects ==
    /\ \A s2 \in {"heal_system", "rename_system"} :
          Returned(<<"rename_system", s2>>)
            => \A j \in DOMAIN PrintedBy(2) : PrintedBy(2)[j].val = "New name"
    /\ Returned(<<"heal_system", "rename_system">>)
          => /\ \A j \in DOMAIN PrintedBy(1) :
                   \E k \in DOMAIN PrintedBy(2) :
                       /\ PrintedBy(2)[k].ent = PrintedBy(1)[j].ent
                       /\ PrintedBy(2)[k].val = PrintedBy(1)[j].val
             /\ \A k \in 1..entities_count :
                   /\ is_some(column(component_vecs, "Name")[k])
                        => column(component_vecs, "Name")[k] = Some("New name")
                   /\ (/\ is_some(column(component_vecs, "Name")[k])
                       /\ is_some(column(component_vecs, "Health")[k]))
                        => column(component_vecs, "Health")[k] = Some(100)

\* The test's scenario: one entity, named "Somebody" when both systems read
\* it, has Health 100 and Name "New name" after update([heal, rename]).
C8_Witness ==
    /\ Returned(<<"heal_system", "rename_system">>)
    /\ entities_count = 1
    /\ seen = <<[sys |-> 1, ent |-> 0, val |-> "Somebody"],
                [sys |-> 2, ent |-> 0, val |-> "Somebody"]>>
    /\ column(component_vecs, "Health") = <<Some(100)>>
    /\ column(component_vecs, "Name") = <<Some("New name")>>

\* C9: a borrow that violates the discipline while update runs a system
\* panics; the panic leaves entities_count, every slot and the record of the
\* invoked systems as they were (nothing is rolled back), and nothing happens
\* after it: no later system is invoked and nothing is retried.
C9_FatalUpdate ==
    [][/\ mode # "panicked"
       /\ fault' # NoFault => mode' = "panicked"
       /\ \A t \in ComponentTypes :
             (/\ mode = "running"
              /\ \/ BorrowComponentVecMut(t) /\ Outstanding(t) > 0
                 \/ BorrowComponentVec(t) /\ views[t].excl > 0)
                => mode' = "panicked"
       /\ (mode = "running" /\ mode' = "panicked")
            => /\ entities_count' = entities_count
               /\ Data(component_vecs') = Data(component_vecs)
               /\ views' = views
               /\ started' = started
               /\ cur' = cur]_vars

\* The first of two systems has panicked on a conflicting borrow, in a World
\* that holds data; the second system was never invoked.
C9_Witness ==
    /\ mode = "panicked"
    /\ fault.msg = "already borrowed"
    /\ Len(systems) = 2
    /\ cur = 1
    /\ started = <<1>>
    /\ entities_count = 2
    /\ Len(component_vecs) = 2
    /\ Outstanding(fault.ty) > 0

\* C10: in every state, add_component_to_entity with entity >= entities_count
\* panics on the out-of-bounds index, whether or not a column of the type is
\* registered; the panics raised are recorded against that entity.
C10_OutOfRangeEntity ==
    /\ \A e \in 0..MaxEntities, t \in ComponentTypes :
          \A v \in ValuesOf(t) :
              e >= entities_count
                => add_component(component_vecs, entities_count, e, t, v).panic
    /\ fault.op = "add_component_to_entity"
          => /\ mode = "panicked"
             /\ fault.msg = "index out of bounds"
             /\ fault.ent >= entities_count

\* The call has panicked in an empty World: no entity, no column.
C10_Witness ==
    /\ mode = "panicked"
    /\ fault.op = "add_component_to_entity"
    /\ fault.ent >= entities_count
    /\ entities_count = 0
    /\ component_vecs = <<>>

----------------------------------------------------------------------------
\* Vocabulary of the properties on attachment.

\* add_component_to_entity has set a component of type t on some entity.
AttachedType(t) == \E p \in attached : p[1] = t

\* The entities on which a call may succeed.
Entities == 0..(entities_count - 1)

\* Slot e of the column of type t in cvs; absent when there is no such column.
Slot(cvs, t, e) ==
    LET i == position(cvs, t) IN IF i = 0 THEN None ELSE cvs[i].vec[e + 1]

\* A call that takes the World by &mut self can be made: no view is alive and
\* no panic has been raised.
Callable == mode # "panicked" /\ views = NoViews

\* C11 (as amended): borrow_component_vec and borrow_component_vec_mut
\* return None exactly when no component of the type was ever attached; once
\* one was, they never return None again: they return a view unless a
\* conflicting view of that column is outstanding, and then they panic.
C11_AbsentUntilAttached ==
    \A t \in ComponentTypes :
        LET shared == borrow_outcome(component_vecs, t)
            excl   == borrow_mut_outcome(component_vecs, t)
        IN IF AttachedType(t)
           THEN /\ shared # "none"
                /\ excl # "none"
                /\ views[t].excl = 0 => shared = "some"
                /\ Outstanding(t) = 0 => excl = "some"
           ELSE shared = "none" /\ excl = "none"

\* C11 as stated: once attached, both calls return a view in every later state.
C11_AlwaysAView ==
    \A t \in ComponentTypes :
        /\ borrow_outcome(component_vecs, t) = "none" <=> ~AttachedType(t)
        /\ borrow_mut_outcome(component_vecs, t) = "none" <=> ~AttachedType(t)
        /\ AttachedType(t)
              => /\ borrow_outcome(component_vecs, t) = "some"
                 /\ borrow_mut_outcome(component_vecs, t) = "some"

\* Two entities; Name was attached and a view of it was returned, Health was
\* never attached.
C11_Witness ==
    /\ entities_count = 2
    /\ AttachedType("Name")
    /\ ~AttachedType("Health")
    /\ views["Name"].shared = 1
    /\ borrow_outcome(component_vecs, "Health") = "none"

\* C12: wherever the call can be made, attaching a component of type T to an
\* entity that already has one succeeds, leaves the second value in the
\* entity's slot, and adds no column and no slot.
C12_OverwriteInPlace ==
    Callable => \A p \in attached :
        \A v \in ValuesOf(p[1]) :
            LET r == add_component(component_vecs, entities_count, p[2], p[1], v) IN
            /\ ~r.panic
            /\ Slot(r.vecs, p[1], p[2]) = Some(v)
            /\ Len(r.vecs) = Len(component_vecs)
            /\ \A i \in DOMAIN component_vecs :
                  Len(r.vecs[i].vec) = entities_count

\* Both types are attached to both of two entities, in two columns of two slots.
C12_Witness ==
    /\ Callable
    /\ entities_count = 2
    /\ Cardinality(attached) = 4
    /\ Len(component_vecs) = 2
    /\ \A i \in DOMAIN component_vecs : Len(component_vecs[i].vec) = 2

\* C13: wherever it can be called, add_component_to_entity(A, value of type T) leaves slot B of T's
\* column as it was for every entity B other than A; when the call creates
\* the column, B's slot is absent as T was absent for B before.
C13_OtherEntitiesUntouched ==
    Callable => \A t \in ComponentTypes :
        LET i == position(component_vecs, t) IN
        \A e \in Entities, v \in ValuesOf(t) :
            LET after == add_component(component_vecs, entities_count, e, t, v).vecs
                j     == position(after, t)
            IN \A b \in Entities \ {e} :
                  after[j].vec[b + 1]
                     = IF i = 0 THEN None ELSE component_vecs[i].vec[b + 1]

\* Health is attached to the second of two entities and not to the first.
C13_Witness ==
    /\ Callable
    /\ entities_count = 2
    /\ attached = {<<"Health", 1>>}
    /\ Slot(component_vecs, "Health", 0) = None
    /\ is_some(Slot(component_vecs, "Health", 1))

\* C15: wherever it can be called, add_component_to_entity(e, value of type T)
\* with e < entities_count and no column of T registers exactly one column more, after the others,
\* of entities_count slots, with the value in slot e and every other slot
\* absent.
C15_FreshColumn ==
    Callable => \A e \in Entities, t \in ComponentTypes :
        ~Exists(t) =>
            \A v \in ValuesOf(t) :
                LET r == add_component(component_vecs, entities_count, e, t, v)
                    n == Len(component_vecs)
                IN /\ ~r.panic
                   /\ Len(r.vecs) = n + 1
                   /\ \A i \in 1..n : r.vecs[i] = component_vecs[i]
                   /\ r.vecs[n + 1].ty = t
                   /\ Len(r.vecs[n + 1].vec) = entities_count
                   /\ \A b \in Entities :
                         r.vecs[n + 1].vec[b + 1] = IF b = e THEN Some(v) ELSE None

\* The second column of the World was created for the second of two entities.
C15_Witness ==
    /\ Callable
    /\ entities_count = 2
    /\ Len(component_vecs) = 2
    /\ component_vecs[2].ty = "Name"
    /\ attached = {<<"Health", 0>>, <<"Name", 1>>}
    /\ component_vecs[2].vec[1] = None
    /\ is_some(component_vecs[2].vec[2])

\* C19: wherever it can be called, add_component_to_entity with
\* entity >= entities_count panics and
\* leaves every column as it was: the same columns with the same slots, and
\* no column registered by the failing call; nor does the raising of the panic
\* change entities_count.
C19_FailedAddChangesNothing ==
    /\ Callable => \A e \in entities_count..MaxEntities, t \in ComponentTypes :
          \A v \in ValuesOf(t) :
              LET r == add_component(component_vecs, entities_count, e, t, v) IN
              /\ r.panic
              /\ Len(r.vecs) = Len(component_vecs)
              /\ r.vecs = component_vecs
    /\ fault.op = "add_component_to_entity"
          => /\ Len(issued) = entities_count
             /\ \A i \in DOMAIN component_vecs :
                   Len(component_vecs[i].vec) = entities_count

\* The call has panicked for a type that has no column, in a World of two
\* entities and one column: the World still has that one column.
C19_Witness ==
    /\ mode = "panicked"
    /\ fault.op = "add_component_to_entity"
    /\ entities_count = 2
    /\ Len(component_vecs) = 1
    /\ ~Exists(fault.ty)

\* C14: new_entity gives every existing column one more slot, the new
\* entity's, which is absent, and leaves the slots of the entities created
\* before as they were; and in every state the slot of an entity is absent in
\* every column whose type has not been attached to that entity.
C14_FreshEntityAbsent ==
    /\ Callable =>
          LET after == new_entity_vecs(component_vecs) IN
          /\ Len(after) = Len(component_vecs)
          /\ \A i \in DOMAIN component_vecs :
                /\ after[i].ty = component_vecs[i].ty
                /\ Len(after[i].vec) = entities_count + 1
                /\ after[i].vec[entities_count + 1] = None
                /\ \A e \in Entities :
                      after[i].vec[e + 1] = component_vecs[i].vec[e + 1]
    /\ \A i \in DOMAIN component_vecs :
          \A e \in Entities :
              <<component_vecs[i].ty, e>> \notin attached
                  => component_vecs[i].vec[e + 1] = None

\* The second entity was created after both types were attached to the first:
\* it has neither, and the first has kept both.
C14_Witness ==
    /\ issued = <<0, 1>>
    /\ attached = {<<"Health", 0>>, <<"Name", 0>>}
    /\ \A t \in ComponentTypes :
          /\ is_some(Slot(component_vecs, t, 0))
          /\ Slot(component_vecs, t, 1) = None

C17_IndependentColumns ==
    \A t \in ComponentTypes :
        Exists(t) =>
            /\ borrow_outcome(component_vecs, t)
                  = IF views[t].excl = 0 THEN "some" ELSE "panic"
            /\ borrow_mut_outcome(component_vecs, t)
                  = IF Outstanding(t) = 0 THEN "some" ELSE "panic"
            /\ LET s == acquire_shared(component_vecs, t)
                   x == acquire_excl(component_vecs, t)
               IN \A u \in ComponentTypes \ {t} :
                     LET shared == borrow_outcome(component_vecs, u)
                         excl   == borrow_mut_outcome(component_vecs, u)
                     IN /\ views[t].excl = 0
                              => /\ borrow_outcome(s, u) = shared
                                 /\ borrow_mut_outcome(s, u) = excl
                        /\ Outstanding(t) = 0
                              => /\ borrow_outcome(x, u) = shared
                                 /\ borrow_mut_outcome(x, u) = excl

\* A caller holds an exclusive view of Health and one of Name at once, as
\* tests::non_update does.
C17_Witness ==
    /\ mode = "idle"
    /\ views["Health"].excl = 1
    /\ views["Name"].excl = 1

\* C18 (as stated): the slots of a column change only in a step taken while
\* the column's borrow flag records an exclusive access.
C18_OnlyTrackedAccess ==
    [][\A i \in DOMAIN component_vecs :
          component_vecs'[i].vec # component_vecs[i].vec
              => component_vecs[i].borrow = -1]_vars

\* C18: views are handed out by borrow_component_vec and
\* borrow_component_vec_mut alone, and through a view the slots of a column
\* are written only while its flag records the exclusive access and read by a
\* system only while its flag records an access; new_entity and
\* add_component_to_entity write slots and register columns directly, which
\* they do only while no view of any column is outstanding and every flag is
\* clear.
C18_TrackedOrExclusiveWorld ==
    [][/\ \A i \in DOMAIN component_vecs :
             component_vecs'[i].vec # component_vecs[i].vec
                 => \/ /\ component_vecs[i].borrow = -1
                       /\ views[component_vecs[i].ty].excl = 1
                    \/ views = NoViews /\ FlagsClear
       /\ Len(component_vecs') # Len(component_vecs)
             => views = NoViews /\ FlagsClear
       /\ Len(seen') > Len(seen)
             => component_vecs[position(component_vecs, "Name")].borrow # 0
       /\ \A t \in ComponentTypes :
             Outstanding(t)' > Outstanding(t)
                 => /\ Exists(t)
                    /\ component_vecs'[position(component_vecs, t)].borrow
                          # component_vecs[position(component_vecs, t)].borrow]_vars

\* heal_system has written Health and printed a name through its views, and
\* it still holds them: both flags record the exclusive access.
C18_Witness ==
    /\ mode = "running"
    /\ systems[cur] = "heal_system"
    /\ spc = 3
    /\ Len(seen) >= 1
    /\ \A i \in DOMAIN component_vecs : component_vecs[i].borrow = -1

\* C20: a successful add_component_to_entity (the step that changes slots or
\* columns while no view is outstanding and no entity is created) changes the
\* column of one type only: entities_count is unchanged, every registered
\* column keeps its place and its type, a new column comes after them, every
\* column of another type keeps all its slots, and looking up another type
\* finds the same column as before.
C20_OnlyOwnColumn ==
    [][(/\ views = NoViews
        /\ issued' = issued
        /\ mode' # "panicked"
        /\ Len(component_vecs') # Len(component_vecs)
              \/ Data(component_vecs') # Data(component_vecs))
          => /\ entities_count' = entities_count
             /\ Len(component_vecs') \in {Len(component_vecs), Len(component_vecs) + 1}
             /\ \A i \in DOMAIN component_vecs :
                   component_vecs'[i].ty = component_vecs[i].ty
             /\ Cardinality(
                   {component_vecs[i].ty : i \in
                       {j \in DOMAIN component_vecs :
                           component_vecs'[j] # component_vecs[j]}}
                   \cup {component_vecs'[i].ty : i \in
                            (Len(component_vecs) + 1)..Len(component_vecs')}) = 1
             /\ \A u \in ComponentTypes :
                   Exists(u) =>
                       /\ position(component_vecs', u) = position(component_vecs, u)
                       /\ component_vecs'[position(component_vecs', u)].ty = u]_vars

\* Name was attached first and Health afterwards, to another entity: Name's
\* column is still the first and still holds the one name.
C20_Witness ==
    /\ entities_count = 2
    /\ Len(component_vecs) = 2
    /\ component_vecs[1].ty = "Name"
    /\ component_vecs[2].ty = "Health"
    /\ attached = {<<"Name", 0>>, <<"Health", 1>>}
    /\ is_some(component_vecs[1].vec[1])
    /\ component_vecs[1].vec[2] = None

====
